---- MODULE Spec2Model ----
(***************************************************************************)
(* StackVector<T> (src/stackvector.h): a fixed-count buffer that lives     *)
(* either in alloca()'d storage of the constructing frame or on the heap.  *)
(* One buffer is followed from construction to destruction.  Addresses and *)
(* sizes are machine words of W bits (ULONG / size_t), all arithmetic on   *)
(* them is modulo 2^W as in the code.                                      *)
(***************************************************************************)
EXTENDS Integers, Sequences, FiniteSets

\* ---- bounds of the model ----
W == 4                    \* width of ULONG / size_t / pointers, in bits
MaxSize == 4              \* largest element count passed to the constructor
StackSize == 8            \* PPCSPUpper - PPCSPLower
MaxMargin == 2            \* largest small mustLeaveStackSizeForScope tried

Modulus == 2 ^ W
Word == 0 .. (Modulus - 1)
Wrap(x) == (x + 4 * Modulus) % Modulus

Null == 0
ElemSizes == {1, 4}       \* sizeof(T): char-like, int / pointer-like
Lowers == {2}             \* PPCSPLower of the constructing task
Margins == (0 .. MaxMargin) \cup {Modulus - 2, Modulus - 1}
Garbage == {0, 7}         \* what a never-constructed slot may hold

VARIABLES
    phase,                \* "unborn" | "alive" | "dead"
    PPCSPLower,           \* e->PPCSPLower of FindTask(NULL)
    PPCSPUpper,           \* e->PPCSPUpper of FindTask(NULL)
    usedStack,            \* true stack usage of the task (upper - stack pointer)
    thisAddr,             \* address of the StackVector object itself
    sizeofT,              \* sizeof(T)
    _memory,              \* T *_memory
    _size,                \* size_t _size
    _callFree,            \* bool _callFree
    _callConstructorsDestructors,
    mustLeave,            \* the constructor's mustLeaveStackSizeForScope argument
    queryOk,              \* NewGetTaskAttrsA(...) was called and returned nonzero
    storageOrigin,        \* "None" | "FrameLocal" | "Heap": branch the constructor took
    heapFailed,           \* malloc() returned a null pointer
    slots,                \* contents of _memory[0 .. _size-1]
    events,               \* element constructions, destructions and free() calls, in order
    lastCall,             \* the last iteration call: "none" | "forEachAssign" | "forEach" | "whileEach"
    lastKeepGoing,        \* the last whileEach callback: the indices at which it returns true
    visited               \* callback invocations of the last iteration call: <<index, member>>

vars == <<phase, PPCSPLower, PPCSPUpper, usedStack, thisAddr, sizeofT, _memory, _size,
          _callFree, _callConstructorsDestructors, mustLeave, queryOk, storageOrigin,
          heapFailed, slots, events, lastCall, lastKeepGoing, visited>>

env == <<PPCSPLower, PPCSPUpper, usedStack, thisAddr, sizeofT>>
fields == <<_memory, _size, _callFree, _callConstructorsDestructors>>
ghost == <<mustLeave, queryOk, storageOrigin, heapFailed>>

\* ---- host environment ----

\* the stack pointer of the constructing frame
StackPointer == PPCSPUpper - usedStack

\* an object on the task's stack lies in a live frame, at or above the stack pointer
ThisAddrs(lower, upper, used) == {upper - used, lower, upper}

\* bool isStackAddress(struct Task *t, void *address) const
isStackAddress(address) == (address > PPCSPLower) /\ (address < PPCSPUpper)

\* NewGetTaskAttrsA(t, &usedStack, ..., TASKINFOTYPE_USEDSTACKSIZE, NULL): the
\* local usedStack keeps its initial 0 when the query fails
QueriedUsedStack(ok) == IF ok THEN usedStack ELSE 0

\* the query is made only for an object on the stack; it may fail
QueryOutcomes == IF isStackAddress(thisAddr) THEN BOOLEAN ELSE {FALSE}

\* canReserveStack with the safety margin counted twice
canReserveStackMarginTwice(size, mustLeaveStackSizeForScope, ok) ==
    IF isStackAddress(thisAddr)
    THEN IF ok
         THEN LET lower == PPCSPLower
                  current == Wrap(PPCSPUpper - QueriedUsedStack(ok))
              IN  Wrap(lower + 2 * mustLeaveStackSizeForScope) < Wrap(current - size)
         ELSE FALSE
    ELSE FALSE

\* canReserveStack without the test of NewGetTaskAttrsA's result
canReserveStackIgnoresQuery(size, mustLeaveStackSizeForScope, ok) ==
    IF isStackAddress(thisAddr)
    THEN LET lower == PPCSPLower
             current == Wrap(PPCSPUpper - QueriedUsedStack(ok))
         IN  Wrap(lower + mustLeaveStackSizeForScope) < Wrap(current - size)
    ELSE FALSE

\* bool canReserveStack(const size_t size, const size_t mustLeaveStackSizeForScope) const
canReserveStack(size, mustLeaveStackSizeForScope, ok) ==
    IF isStackAddress(thisAddr)
    THEN IF ok
         THEN LET lower == PPCSPLower
                  current == Wrap(PPCSPUpper - QueriedUsedStack(ok))
              IN  Wrap(lower + mustLeaveStackSizeForScope) < Wrap(current - size)
         ELSE FALSE
    ELSE FALSE

\* alloca(needBytes): lowers the stack pointer of the constructing frame
alloca(needBytes) == Wrap(StackPointer - needBytes)

\* malloc(needBytes): a block outside the task's stack, or a null pointer
HeapAddrs == {PPCSPUpper + 2}
mallocResults == HeapAddrs \cup {Null}

\* ---- element lifecycle ----

\* for (size_t i = 0; i < size; i++) new (&_memory[i]) T ();
RECURSIVE ctorLoop(_, _, _)
ctorLoop(i, size, log) ==
    IF i < size THEN ctorLoop(i + 1, size, Append(log, <<"construct", i>>)) ELSE log

\* the constructor's loop guarded by the flag alone
ctorEventsNoNullCheck(callCD, memory, size) ==
    IF callCD THEN ctorLoop(0, size, <<>>) ELSE <<>>

\* if (_callConstructorsDestructors && _memory) { ... } in the constructor
ctorEvents(callCD, memory, size) ==
    IF callCD /\ memory # Null THEN ctorLoop(0, size, <<>>) ELSE <<>>

\* for (size_t i = 0; i < _size; i++) (&_memory[i])->~T();
RECURSIVE dtorLoop(_, _, _)
dtorLoop(i, size, log) ==
    IF i < size THEN dtorLoop(i + 1, size, Append(log, <<"destruct", i>>)) ELSE log

\* the destructor's loop guarded by the pointer alone
dtorEventsNoFlagCheck ==
    IF _memory # Null THEN dtorLoop(0, _size, <<>>) ELSE <<>>

\* if (_callConstructorsDestructors && _memory) { ... } in the destructor
dtorEvents ==
    IF _callConstructorsDestructors /\ _memory # Null THEN dtorLoop(0, _size, <<>>) ELSE <<>>

\* free() decided by the pointer instead of _callFree
dtorFreeWhenNonNull == IF _memory # Null THEN << <<"free", _memory>> >> ELSE <<>>

\* if (_callFree) free(_memory);
dtorFree == IF _callFree THEN << <<"free", _memory>> >> ELSE <<>>

\* ---- queries ----

\* size_t count() const
count == _size

\* isValid() without the size test
isValidNoSizeCheck == _memory # Null

\* bool isValid() const
isValid == _memory # Null /\ _size > 0

\* bool isAllocatedOnStack() const, called from the constructing task
isAllocatedOnStack == isStackAddress(_memory)

\* ---- iteration ----

\* the lambdas of main(): "assign" is member = index, "print" reads member
onEachVoid(kind, st, idx) ==
    [slots |-> IF kind = "assign" THEN [st.slots EXCEPT ![idx] = idx] ELSE st.slots,
     out   |-> Append(st.out, <<idx, st.slots[idx]>>)]

\* the forEach loop stopping one element early
RECURSIVE forEachLoopOffByOne(_, _, _)
forEachLoopOffByOne(idx, st, kind) ==
    IF idx + 1 < _size
    THEN forEachLoopOffByOne(idx + 1, onEachVoid(kind, st, idx), kind)
    ELSE st

\* for (size_t idx = 0; idx < _size; idx++) onEach(_memory[idx], idx);
RECURSIVE forEachLoop(_, _, _)
forEachLoop(idx, st, kind) ==
    IF idx < _size THEN forEachLoop(idx + 1, onEachVoid(kind, st, idx), kind) ELSE st

\* void forEach(std::function<void(T&, size_t)>&&) and its const overload
forEach(kind) ==
    IF _memory # Null
    THEN forEachLoop(0, [slots |-> slots, out |-> <<>>], kind)
    ELSE [slots |-> slots, out |-> <<>>]

\* the whileEach loop without the break
RECURSIVE whileEachLoopNoBreak(_, _, _)
whileEachLoopNoBreak(idx, out, keepGoing) ==
    IF idx < _size
    THEN whileEachLoopNoBreak(idx + 1, Append(out, <<idx, slots[idx]>>), keepGoing)
    ELSE out

\* for (...) { if (!onEach(_memory[idx], idx)) break; }  keepGoing is the set of
\* indices at which the callback returns true
RECURSIVE whileEachLoop(_, _, _)
whileEachLoop(idx, out, keepGoing) ==
    IF idx < _size
    THEN IF idx \in keepGoing
         THEN whileEachLoop(idx + 1, Append(out, <<idx, slots[idx]>>), keepGoing)
         ELSE Append(out, <<idx, slots[idx]>>)
    ELSE out

\* void whileEach(std::function<bool(T&, size_t)>&&) and its const overload
whileEach(keepGoing) ==
    IF _memory # Null THEN whileEachLoop(0, <<>>, keepGoing) ELSE <<>>

\* ---- the state machine ----

Init ==
    /\ phase = "unborn"
    /\ PPCSPLower \in Lowers
    /\ PPCSPUpper = PPCSPLower + StackSize
    /\ usedStack \in 1 .. (StackSize - 1)
    /\ thisAddr \in ThisAddrs(PPCSPLower, PPCSPUpper, usedStack)
    /\ sizeofT \in ElemSizes
    /\ _memory = Null
    /\ _size = 0
    /\ _callFree = FALSE
    /\ _callConstructorsDestructors = FALSE
    /\ mustLeave = 0
    /\ queryOk = FALSE
    /\ storageOrigin = "None"
    /\ heapFailed = FALSE
    /\ slots = <<>>
    /\ events = <<>>
    /\ lastCall = "none"
    /\ lastKeepGoing = {}
    /\ visited = <<>>

\* slot contents after construction: T() value-initialises; storage that was never
\* constructed is indeterminate (Garbage spans the fill values tried)
InitialSlots(callCD, memory, size) ==
    IF memory = Null THEN {<<>>}
    ELSE IF callCD THEN {[i \in 0 .. (size - 1) |-> 0]}
    ELSE {[i \in 0 .. (size - 1) |-> g] : g \in Garbage}

\* StackVector(const size_t size, const size_t mustLeaveStackSizeForScope, bool callConstructorsDestructors)
Construct ==
    /\ phase = "unborn"
    /\ \E size \in 0 .. MaxSize, margin \in Margins, callCD \in BOOLEAN, ok \in QueryOutcomes :
         LET needBytes == Wrap(size * sizeofT)
             onStack == canReserveStack(needBytes, margin, ok)
         IN  \E memory \in (IF onStack THEN {alloca(needBytes)} ELSE mallocResults) :
               /\ _size' = size
               /\ _callConstructorsDestructors' = callCD
               /\ _memory' = memory
               /\ _callFree' = ~onStack
               /\ storageOrigin' = IF onStack THEN "FrameLocal" ELSE "Heap"
               /\ heapFailed' = (~onStack /\ memory = Null)
               /\ mustLeave' = margin
               /\ queryOk' = ok
               /\ events' = ctorEvents(callCD, memory, size)
               /\ slots' \in InitialSlots(callCD, memory, size)
    /\ phase' = "alive"
    /\ UNCHANGED <<env, lastCall, lastKeepGoing, visited>>

\* void forEach(std::function<void(T& member, size_t index)>&& onEach)
ForEach ==
    /\ phase = "alive"
    /\ \E kind \in {"assign", "print"} :
         LET r == forEach(kind)
         IN  /\ slots' = r.slots
             /\ visited' = r.out
             /\ lastCall' = IF kind = "assign" THEN "forEachAssign" ELSE "forEach"
    /\ lastKeepGoing' = {}
    /\ UNCHANGED <<phase, env, fields, ghost, events>>

\* void forEach(std::function<void(const T& member, size_t index)>&& onEach) const
ForEachConst ==
    /\ phase = "alive"
    /\ visited' = forEach("print").out
    /\ lastCall' = "forEach"
    /\ lastKeepGoing' = {}
    /\ UNCHANGED <<phase, env, fields, ghost, events, slots>>

\* void whileEach(std::function<bool(T& member, size_t index)>&& onEach)
WhileEach ==
    /\ phase = "alive"
    /\ \E keepGoing \in SUBSET (0 .. (_size - 1)) :
         /\ visited' = whileEach(keepGoing)
         /\ lastKeepGoing' = keepGoing
    /\ lastCall' = "whileEach"
    /\ UNCHANGED <<phase, env, fields, ghost, events, slots>>

\* void whileEach(std::function<bool(const T& member, size_t index)>&& onEach) const
WhileEachConst ==
    /\ phase = "alive"
    /\ \E keepGoing \in SUBSET (0 .. (_size - 1)) :
         /\ visited' = whileEach(keepGoing)
         /\ lastKeepGoing' = keepGoing
    /\ lastCall' = "whileEach"
    /\ UNCHANGED <<phase, env, fields, ghost, events, slots>>

\* ~StackVector()
Destroy ==
    /\ phase = "alive"
    /\ events' = events \o dtorEvents \o dtorFree
    /\ phase' = "dead"
    /\ UNCHANGED <<env, fields, ghost, slots, lastCall, lastKeepGoing, visited>>

Next ==
    \/ Construct
    \/ ForEach
    \/ ForEachConst
    \/ WhileEach
    \/ WhileEachConst
    \/ Destroy

Spec == Init /\ [][Next]_vars


\* ---- helpers of the properties ----

Indices(log) == [i \in 1 .. Len(log) |-> log[i][1]]
Iota(n) == [i \in 1 .. n |-> i - 1]
IsConstruct(e) == e[1] = "construct"
IsDestruct(e) == e[1] = "destruct"
IsFree(e) == e[1] = "free"
EventIndices(log) == [i \in 1 .. Len(log) |-> log[i][2]]
Constructed == EventIndices(SelectSeq(events, IsConstruct))
Destructed == EventIndices(SelectSeq(events, IsDestruct))
Freed == EventIndices(SelectSeq(events, IsFree))
Positions(op) == {i \in 1 .. Len(events) : events[i][1] = op}
Built == phase \in {"alive", "dead"}
SetMin(S) == CHOOSE x \in S : \A y \in S : x <= y

\* C1: one forEach call on a buffer with non-null storage invokes the callback
\* exactly _size times, with indices 0, 1, ..., _size-1 in ascending order, each
\* call receiving the slot at its index (the assigning lambda leaves index i in
\* slot i, the reading lambda sees the content of slot i).
C1_ForEachVisitsAll ==
    (Built /\ lastCall \in {"forEachAssign", "forEach"} /\ _memory # Null) =>
        /\ Indices(visited) = Iota(_size)
        /\ \A i \in 0 .. (_size - 1) :
             /\ lastCall = "forEachAssign" => slots[i] = i
             /\ lastCall = "forEach" => visited[i + 1][2] = slots[i]

C1_Witness ==
    /\ phase = "alive" /\ lastCall = "forEachAssign" /\ _memory # Null
    /\ _size >= 3 /\ Len(visited) = _size /\ slots[2] = 2

\* C2: whileEach on a buffer with non-null storage visits 0, 1, ..., k in ascending
\* order, where k is the first index at which the callback returns false, and
\* nothing after k; with no such index it visits exactly 0 .. _size-1.
C2_WhileEachStopsAtFirstFalse ==
    (Built /\ lastCall = "whileEach" /\ _memory # Null) =>
        LET falseAt == (0 .. (_size - 1)) \ lastKeepGoing
            last == IF falseAt = {} THEN _size - 1 ELSE SetMin(falseAt)
        IN  Indices(visited) = Iota(last + 1)

C2_Witness ==
    /\ phase = "alive" /\ lastCall = "whileEach" /\ _memory # Null
    /\ _size >= 4 /\ lastKeepGoing = {0, 2}
    /\ Indices(visited) = <<0, 1>>

\* C3 as claimed: with _callConstructorsDestructors, exactly _size constructions at
\* creation and exactly _size destructions at destruction, whatever the storage.
C3_LifecycleCountsAsClaimed ==
    (Built /\ _callConstructorsDestructors) =>
        /\ Constructed = Iota(_size)
        /\ phase = "dead" => Destructed = Iota(_size)

\* C3 (amended): with _callConstructorsDestructors and non-null storage, exactly
\* _size constructions happen at creation (slot 0 upward, each slot once) and
\* exactly _size destructions at destruction (each slot once), every construction
\* before every destruction; without the flag, or with null storage, no
\* construction and no destruction happens.
C3_LifecycleCounts ==
    /\ (Built /\ _callConstructorsDestructors /\ _memory # Null) =>
          /\ Constructed = Iota(_size)
          /\ phase = "alive" => Destructed = <<>>
          /\ phase = "dead" => Destructed = Iota(_size)
          /\ \A c \in Positions("construct"), d \in Positions("destruct") : c < d
    /\ (~_callConstructorsDestructors \/ _memory = Null) =>
          (Constructed = <<>> /\ Destructed = <<>>)
    /\ phase = "unborn" => events = <<>>

C3_Witness ==
    /\ phase = "dead" /\ _callConstructorsDestructors /\ _memory # Null
    /\ _size >= 3 /\ Len(Constructed) = _size /\ Len(Destructed) = _size

\* C4: destroying a buffer that took the heap branch calls free exactly once, on
\* _memory, after every element destruction; destroying a frame-local buffer calls
\* free not at all; nothing is freed before destruction; _callFree is true exactly
\* when the constructor took the heap branch.
C4_ReleaseMatchesOrigin ==
    /\ Built => (_callFree <=> storageOrigin = "Heap")
    /\ phase # "dead" => Freed = <<>>
    /\ (phase = "dead" /\ storageOrigin = "Heap") =>
          /\ Freed = <<_memory>>
          /\ \A d \in Positions("destruct"), f \in Positions("free") : d < f
    /\ (phase = "dead" /\ storageOrigin = "FrameLocal") => Freed = <<>>

C4_Witness ==
    /\ phase = "dead" /\ storageOrigin = "Heap" /\ _memory # Null
    /\ _size >= 2 /\ Len(Destructed) = _size /\ Len(Freed) = 1

\* C5: after construction isValid() is false exactly when storage acquisition
\* failed (malloc returned null) or _size = 0, on either branch.
C5_IsValid ==
    Built => (~isValid <=> (heapFailed \/ _size = 0))

C5_Witness ==
    /\ phase = "alive" /\ storageOrigin = "FrameLocal" /\ _size = 0 /\ ~isValid
    /\ _memory # Null

\* ---- the capacity decision, in unbounded arithmetic ----

TrueNeed == _size * sizeofT
Frontier == PPCSPUpper - usedStack
Headroom == Frontier - PPCSPLower

\* C6: the constructor takes the frame-local branch only if, with needBytes carved
\* out below the stack frontier, at least mustLeaveStackSizeForScope bytes really
\* remain above PPCSPLower; whenever the true needBytes plus the margin exceeds the
\* headroom the buffer is on the heap and isAllocatedOnStack() is false.
C6_FrameLocalLeavesMargin ==
    Built =>
        /\ storageOrigin = "FrameLocal" => (Frontier - TrueNeed) - PPCSPLower >= mustLeave
        /\ (TrueNeed + mustLeave > Headroom) =>
              (storageOrigin = "Heap" /\ ~isAllocatedOnStack)

\* C7 as claimed: whenever needBytes plus the margin fits within the headroom the
\* buffer reports isAllocatedOnStack().
C7_FitsImpliesOnStackAsClaimed ==
    (Built /\ TrueNeed + mustLeave <= Headroom) => isAllocatedOnStack

\* C7 (amended): when the buffer object itself is on the constructing task's stack,
\* the stack-usage query succeeds and needBytes plus the margin is strictly less
\* than the headroom, the constructor takes the frame-local branch and the buffer
\* reports isAllocatedOnStack() on the constructing task.
C7_FitsImpliesOnStack ==
    (Built /\ isStackAddress(thisAddr) /\ queryOk /\ TrueNeed + mustLeave < Headroom) =>
        (storageOrigin = "FrameLocal" /\ isAllocatedOnStack)

C7_Witness ==
    /\ phase = "alive" /\ isStackAddress(thisAddr) /\ queryOk
    /\ _size >= 2 /\ mustLeave >= 1 /\ TrueNeed + mustLeave + 1 = Headroom
    /\ isAllocatedOnStack

\* C8: the frame-local branch is taken only when the buffer object is on the task's
\* stack and the stack-usage query succeeded; otherwise the constructor takes the
\* heap branch (_callFree set, storage from malloc) for every size and margin.
C8_FrameLocalNeedsStackObjectAndQuery ==
    Built =>
        /\ storageOrigin = "FrameLocal" => (isStackAddress(thisAddr) /\ queryOk)
        /\ (~isStackAddress(thisAddr) \/ ~queryOk) =>
              (storageOrigin = "Heap" /\ _callFree /\ _memory \in mallocResults)

C8_Witness ==
    /\ phase = "alive" /\ isStackAddress(thisAddr) /\ ~queryOk
    /\ _size = 0 /\ mustLeave = 0 /\ storageOrigin = "Heap" /\ _callFree

\* C9: after a failed heap acquisition _memory is null for the whole lifetime,
\* isValid() is false, no element is constructed or destructed and every forEach
\* and whileEach call invokes its callback zero times, whatever the flag and size.
C9_FailedAcquisitionIsInert ==
    (Built /\ heapFailed) =>
        /\ _memory = Null
        /\ ~isValid
        /\ Constructed = <<>>
        /\ Destructed = <<>>
        /\ visited = <<>>

C9_Witness ==
    /\ phase = "dead" /\ heapFailed /\ _callConstructorsDestructors /\ _size >= 2
    /\ lastCall = "whileEach" /\ lastKeepGoing = {0, 1} /\ visited = <<>>

\* C10: storage taken on the frame-local branch lies strictly between PPCSPLower and
\* PPCSPUpper, so isAllocatedOnStack() on the constructing task is true exactly
\* when the constructor took the frame-local branch.
C10_FrameLocalStorageOnStack ==
    Built =>
        /\ storageOrigin = "FrameLocal" => isStackAddress(_memory)
        /\ isAllocatedOnStack <=> storageOrigin = "FrameLocal"
====
